---- MODULE Spec2Model ----
(***************************************************************************)
(* Order-status polling and conditional-download pipeline of               *)
(* dm-foto-checker: check_orders.py (fetch_order_status, process_csv_file) *)
(* and downloader.py (download_photos, download_file).                     *)
(*                                                                         *)
(* A Python str is a sequence of one-character strings; a pathlib.Path is  *)
(* a sequence of components (each a str as above).  The filesystem and    *)
(* the two HTTP endpoints are the environment: their answers are drawn    *)
(* with \E in the step that asks for them.                                 *)
(***************************************************************************)
EXTENDS Integers, Sequences, FiniteSets, TLC

\* ------------------------------------------------------------------ bounds
\* Longest CSV file (number of data rows) the reader yields.
MaxOrders == 2
\* Longest CSV file for which a second and later call of process_csv_file
\* over the same file is explored.
MaxRerunOrders == 1

\* ----------------------------------------------------------------- strings
LowerAlpha ==
  <<"a","b","c","d","e","f","g","h","i","j","k","l","m",
    "n","o","p","q","r","s","t","u","v","w","x","y","z">>

UpperAlpha ==
  <<"A","B","C","D","E","F","G","H","I","J","K","L","M",
    "N","O","P","Q","R","S","T","U","V","W","X","Y","Z">>

\* the upper-case letter of every lower-case letter
UpperOf ==
  [c \in {LowerAlpha[i] : i \in 1..26} |->
     UpperAlpha[CHOOSE i \in 1..26 : LowerAlpha[i] = c]]

\* the lower-case letter of every upper-case letter
LowerOf ==
  [c \in {UpperAlpha[i] : i \in 1..26} |->
     LowerAlpha[CHOOSE i \in 1..26 : UpperAlpha[i] = c]]

\* one character of str.upper()
char_upper(c) == IF c \in DOMAIN UpperOf THEN UpperOf[c] ELSE c

\* one character of str.lower()
char_lower(c) == IF c \in DOMAIN LowerOf THEN LowerOf[c] ELSE c

\* str.upper()
str_upper(s) == [i \in 1..Len(s) |-> char_upper(s[i])]

\* str.lower()
str_lower(s) == [i \in 1..Len(s) |-> char_lower(s[i])]

\* sub in s
str_contains(sub, s) ==
  \E k \in 0..(Len(s) - Len(sub)) : SubSeq(s, k + 1, k + Len(sub)) = sub

\* s.replace(old, new) for a one-character old
RECURSIVE str_replace(_, _, _)
str_replace(s, old, new) ==
  IF s = <<>> THEN <<>>
  ELSE (IF Head(s) = old THEN new ELSE <<Head(s)>>)
         \o str_replace(Tail(s), old, new)

\* s.lstrip() (blanks are the only whitespace of the inputs)
RECURSIVE str_lstrip(_)
str_lstrip(s) ==
  IF s # <<>> /\ Head(s) = " " THEN str_lstrip(Tail(s)) ELSE s

\* s.rstrip()
RECURSIVE str_rstrip(_)
str_rstrip(s) ==
  IF s # <<>> /\ s[Len(s)] = " "
  THEN str_rstrip(SubSeq(s, 1, Len(s) - 1)) ELSE s

\* s.strip()
str_strip(s) == str_rstrip(str_lstrip(s))

\* ------------------------------------------------------- program constants
DOWNLOADS_DIR == <<"d","o","w","n","l","o","a","d","s">>

DELIVERED == <<"D","E","L","I","V","E","R","E","D">>

\* len(order_number.replace("-", "")) == 12
FULL_ID_LEN == 12

\* STATUS_EMOJIS in insertion order: <<key, emoji>>
STATUS_EMOJIS ==
  << << <<"P","R","O","C","E","S","S","I","N","G">>, <<"(factory)">> >>,
     << <<"S","H","I","P","P","E","D">>,             <<"(package)">> >>,
     << DELIVERED,                                   <<"(check)">> >>,
     << <<"C","A","N","C","E","L","L","E","D">>,     <<"(cross)">> >>,
     << <<"E","R","R","O","R">>,                     <<"(warning)">> >>,
     << <<"U","n","k","n","o","w","n">>,             <<"(question)">> >> >>

\* ------------------------------------------------------- status classifier
\* add_status_emoji: the first key, in order, that is a case-insensitive
\* substring of the status code decides the emoji.
add_status_emoji(status_code, status_text) ==
  LET hits == {i \in 1..Len(STATUS_EMOJIS) :
                 str_contains(str_lower(STATUS_EMOJIS[i][1]),
                              str_lower(status_code))}
  IN IF hits # {}
     THEN STATUS_EMOJIS[CHOOSE i \in hits : \A j \in hits : i <= j][2]
            \o <<" ">> \o status_text
     ELSE <<"(question)">> \o <<" ">> \o status_text

\* variant: the comparison without .upper()
is_ready_for_pickup_exact_case(status_code) == status_code = DELIVERED

is_ready_for_pickup(status_code) == str_upper(status_code) = DELIVERED

\* ----------------------------------------------------------- order ids
\* "-" in s
has_hyphen(s) == \E i \in 1..Len(s) : s[i] = "-"

\* variant: the hyphen test of line 188 in place of the test of line 93
build_full_order_id_hyphen_only(order_number, shop_number) ==
  IF has_hyphen(order_number)
  THEN order_number
  ELSE shop_number \o <<"-">> \o order_number

\* fetch_order_status, lines 93-96: the fullOrderId query parameter
build_full_order_id(order_number, shop_number) ==
  IF /\ has_hyphen(order_number)
     /\ Len(str_replace(order_number, "-", <<>>)) = FULL_ID_LEN
  THEN order_number
  ELSE shop_number \o <<"-">> \o order_number

\* process_csv_file, lines 187-189: the order id handed to download_photos
resolve_download_order_id(cewe_order_id, order, shop) ==
  LET download_order_id == IF cewe_order_id # <<>> THEN cewe_order_id ELSE order
  IN IF ~has_hyphen(download_order_id)
     THEN shop \o <<"-">> \o download_order_id
     ELSE download_order_id

\* ----------------------------------------------------------- status client
\* What requests.get / raise_for_status / resp.json / data.get produce:
\* kind "error" is any exception raised inside the try block (transport
\* failure, non-2xx, invalid JSON, a body that is no JSON object or whose
\* code is no string), kind "json" a 2xx answer with the two fields.
\* The answers drawn: a connection failure, a body that is no JSON object,
\* the code "Delivered" without a text, and the code "DELIVERED_PARTIAL"
\* with a text.
StatusResponses ==
  { [kind |-> "error", msg |-> m, code |-> <<>>, text |-> <<>>] :
      m \in { <<"ConnectionError">>, <<"AttributeError">> } }
  \cup
  { [kind |-> "json", msg |-> <<>>,
     code |-> <<"D","e","l","i","v","e","r","e","d">>, text |-> <<>>],
    [kind |-> "json", msg |-> <<>>,
     code |-> DELIVERED \o <<"_","P","A","R","T","I","A","L">>,
     text |-> <<"T","e","i","l">>] }

\* fetch_order_status: (status_code, formatted_status), with the id it sent
fetch_order_status(order_number, shop_number, resp) ==
  LET full_order_id == build_full_order_id(order_number, shop_number)
  IN IF resp.kind = "error"
     THEN [full_order_id |-> full_order_id,
           status_code |-> <<>>,
           status |-> <<"(warning)">> \o <<" ","E","r","r","o","r",":"," ">>
                        \o resp.msg]
     ELSE LET status_code == resp.code
              status_text ==
                IF resp.text # <<>> THEN resp.text
                ELSE IF status_code # <<>> THEN status_code
                ELSE <<"U","n","k","n","o","w","n">>
          IN [full_order_id |-> full_order_id,
              status_code |-> status_code,
              status |-> add_status_emoji(status_code, status_text)]

\* ------------------------------------------------------------------- paths
\* the components of a path string, split at "/"
RECURSIVE path_split(_, _)
path_split(s, part) ==
  IF s = <<>> THEN (IF part = <<>> THEN <<>> ELSE <<part>>)
  ELSE IF Head(s) = "/"
       THEN (IF part = <<>> THEN <<>> ELSE <<part>>) \o path_split(Tail(s), <<>>)
       ELSE path_split(Tail(s), Append(part, Head(s)))

\* pathlib.Path(s): an absolute path starts with the root component
Path(s) ==
  (IF s # <<>> /\ s[1] = "/" THEN << <<"/">> >> ELSE <<>>) \o path_split(s, <<>>)

\* the working directory every relative path is taken from
CWD == << <<"/">>, <<"w","d">> >>

\* Path.resolve(): absolute (the inputs hold no "..", no links)
resolve(p) == IF p # <<>> /\ p[1] = <<"/">> THEN p ELSE CWD \o p

\* process_csv_file, lines 152-161: CSV column > downloads/{identifier} >
\* downloads
resolve_output_path(csv_output_path, ident) ==
  IF csv_output_path # <<>>
  THEN resolve(Path(csv_output_path))
  ELSE IF ident # <<>>
       THEN Path(DOWNLOADS_DIR) \o Path(str_replace(ident, " ", <<"_">>))
       ELSE Path(DOWNLOADS_DIR)

\* ------------------------------------------------------------ CSV inputs
SHOP == <<"5","4","1","0","3","2">>

\* an order number as printed on the envelope
ORD_PLAIN == <<"0","5","0","8","4","2">>

\* an order number with a hyphen and 11 other characters
ORD_HYPH11 == <<"5","4","1","0","3","-","0","5","0","8","4","2">>

\* Raw rows the csv.DictReader yields.  Between them they take every branch
\* of the loop body: a secure_id that is blank once stripped, the downloads
\* folder itself, a folder named after the identifier together with a
\* cewe_order_id, and an explicit output_path together with a hyphenated
\* order number.
Rows ==
  { [order_number |-> ORD_PLAIN, shop_number |-> SHOP, identifier |-> <<>>,
     secure_id |-> <<" ">>, cewe_order_id |-> <<>>, output_path |-> <<>>],
    [order_number |-> ORD_PLAIN, shop_number |-> SHOP, identifier |-> <<>>,
     secure_id |-> <<"z","t">>, cewe_order_id |-> <<>>, output_path |-> <<>>],
    [order_number |-> ORD_PLAIN, shop_number |-> SHOP,
     identifier |-> <<"a"," ","b">>, secure_id |-> <<"z","t">>,
     cewe_order_id |-> <<"7","7">>, output_path |-> <<>>],
    [order_number |-> ORD_HYPH11, shop_number |-> SHOP, identifier |-> <<>>,
     secure_id |-> <<"z","t">>, cewe_order_id |-> <<>>,
     output_path |-> <<"/","o","u","t">>] }

\* -------------------------------------------------------------- filesystem
Prefixes(p) == {SubSeq(p, 1, k) : k \in 1..Len(p)}

parent(p) == SubSeq(p, 1, Len(p) - 1)

\* directories taken to exist: the working directory and what is above it
BasePaths == Prefixes(CWD)

\* every path the rows can make the program touch
TrackedPaths ==
  UNION { Prefixes(resolve(resolve_output_path(str_strip(r.output_path),
                                               str_strip(r.identifier)))) :
            r \in Rows } \ BasePaths

\* a file that is in a directory before the program first runs
OLD_FILE == <<"o","l","d">>

\* the single member of a non-empty photo archive
ARCHIVE_MEMBER == <<"I","M","G">>

Kinds == {"absent", "dir", "file"}

fs_kind(f, p) == IF p \in BasePaths THEN "dir" ELSE f.kind[p]

\* Path.exists()
path_exists(f, p) == fs_kind(f, resolve(p)) # "absent"

\* any(Path.iterdir()) of a directory
dir_has_entry(f, p) ==
  \/ f.files[resolve(p)] # {}
  \/ \E q \in TrackedPaths : parent(q) = resolve(p) /\ f.kind[q] # "absent"

\* variant: only regular files count as entries
already_downloaded_files_only(f, output_path) ==
  IF ~path_exists(f, output_path) THEN "no"
  ELSE IF fs_kind(f, resolve(output_path)) # "dir" THEN "raise"
  ELSE IF f.files[resolve(output_path)] # {} THEN "yes"
  ELSE "no"

\* process_csv_file, line 164: output_path.exists() and
\* any(output_path.iterdir()); iterdir of what is no directory raises
already_downloaded(f, output_path) ==
  IF ~path_exists(f, output_path) THEN "no"
  ELSE IF fs_kind(f, resolve(output_path)) # "dir" THEN "raise"
  ELSE IF dir_has_entry(f, output_path) THEN "yes"
  ELSE "no"

\* Path.mkdir(parents=True, exist_ok=True); permitted is the operating
\* system's answer where a directory has to be created
mkdir(f, output_path, permitted) ==
  LET p == resolve(output_path)
      above == Prefixes(p) \ BasePaths
  IN IF fs_kind(f, p) = "dir" THEN [ok |-> TRUE, fs |-> f]
     ELSE IF \E q \in above : f.kind[q] = "file" THEN [ok |-> FALSE, fs |-> f]
     ELSE IF ~permitted THEN [ok |-> FALSE, fs |-> f]
     ELSE [ok |-> TRUE,
           fs |-> [f EXCEPT !.kind =
                     [q \in TrackedPaths |->
                        IF q \in above THEN "dir" ELSE f.kind[q]]]]

\* What the download endpoint and the local disk do to one download_file
\* call:
\*   request_error       requests.get / raise_for_status raises
\*   bad_content_length  the content-length header is no integer
\*   open_error          open(full_path, "wb") raises
\*   stream_error        iter_content or write raises after the file is open
\*   bad_zip             the payload is no ZIP archive
\*   extract_error       extractall or unlink raises another exception
\*   zip                 a ZIP archive with the given members
DownloadResponses ==
  { [kind |-> k, members |-> {}] :
      k \in {"request_error", "bad_content_length", "open_error",
             "stream_error", "bad_zip", "extract_error"} }
  \cup
  { [kind |-> "zip", members |-> m] : m \in {{}, {ARCHIVE_MEMBER}} }

add_file(f, dir, name) ==
  [f EXCEPT !.files[dir] = f.files[dir] \cup {name}]

\* variant: BadZipFile makes the download fail
download_file_bad_zip_fails(f, output_path, filename, resp) ==
  LET dir == resolve(output_path)
  IN CASE resp.kind = "request_error" -> [result |-> "false", fs |-> f]
       [] resp.kind = "bad_content_length" -> [result |-> "raise", fs |-> f]
       [] resp.kind = "open_error" -> [result |-> "false", fs |-> f]
       [] resp.kind = "stream_error" ->
            [result |-> "false", fs |-> add_file(f, dir, filename)]
       [] resp.kind = "bad_zip" ->
            [result |-> "false", fs |-> add_file(f, dir, filename)]
       [] resp.kind = "extract_error" ->
            [result |-> "true", fs |-> add_file(f, dir, filename)]
       [] resp.kind = "zip" ->
            [result |-> "true",
             fs |-> [f EXCEPT !.files[dir] =
                       (f.files[dir] \cup resp.members) \ {filename}]]

\* variant: a payload that is no archive is deleted
download_file_removes_bad_zip(f, output_path, filename, resp) ==
  LET dir == resolve(output_path)
  IN CASE resp.kind = "request_error" -> [result |-> "false", fs |-> f]
       [] resp.kind = "bad_content_length" -> [result |-> "raise", fs |-> f]
       [] resp.kind = "open_error" -> [result |-> "false", fs |-> f]
       [] resp.kind = "stream_error" ->
            [result |-> "false", fs |-> add_file(f, dir, filename)]
       [] resp.kind = "bad_zip" -> [result |-> "true", fs |-> f]
       [] resp.kind = "extract_error" ->
            [result |-> "true", fs |-> add_file(f, dir, filename)]
       [] resp.kind = "zip" ->
            [result |-> "true",
             fs |-> [f EXCEPT !.files[dir] =
                       (f.files[dir] \cup resp.members) \ {filename}]]

\* variant: the partial file is deleted when streaming fails
download_file_cleans_partial(f, output_path, filename, resp) ==
  LET dir == resolve(output_path)
  IN CASE resp.kind = "request_error" -> [result |-> "false", fs |-> f]
       [] resp.kind = "bad_content_length" -> [result |-> "raise", fs |-> f]
       [] resp.kind = "open_error" -> [result |-> "false", fs |-> f]
       [] resp.kind = "stream_error" -> [result |-> "false", fs |-> f]
       [] resp.kind = "bad_zip" ->
            [result |-> "true", fs |-> add_file(f, dir, filename)]
       [] resp.kind = "extract_error" ->
            [result |-> "true", fs |-> add_file(f, dir, filename)]
       [] resp.kind = "zip" ->
            [result |-> "true",
             fs |-> [f EXCEPT !.files[dir] =
                       (f.files[dir] \cup resp.members) \ {filename}]]

\* download_file: "true" / "false" are its return values, "raise" an
\* exception that leaves it
download_file(f, output_path, filename, resp) ==
  LET dir == resolve(output_path)
  IN CASE resp.kind = "request_error" -> [result |-> "false", fs |-> f]
       [] resp.kind = "bad_content_length" -> [result |-> "raise", fs |-> f]
       [] resp.kind = "open_error" -> [result |-> "false", fs |-> f]
       [] resp.kind = "stream_error" ->
            [result |-> "false", fs |-> add_file(f, dir, filename)]
       [] resp.kind = "bad_zip" ->
            [result |-> "true", fs |-> add_file(f, dir, filename)]
       [] resp.kind = "extract_error" ->
            [result |-> "true", fs |-> add_file(f, dir, filename)]
       [] resp.kind = "zip" ->
            [result |-> "true",
             fs |-> [f EXCEPT !.files[dir] =
                       (f.files[dir] \cup resp.members) \ {filename}]]

\* download_photos, line 116: filename = f"photos_{order_id}.zip"
archive_name(order_id) ==
  <<"p","h","o","t","o","s","_">> \o order_id \o <<".","z","i","p">>

\* download_photos: one download_file call for the order's archive
download_photos(f, order_id, secure_id, output_folder, resp) ==
  download_file(f, output_folder, archive_name(order_id), resp)

\* ------------------------------------------------------------------- state
VARIABLES
  enable_download,  \* the flag process_csv_file is called with
  fs,               \* the filesystem: kind and files of every tracked path
  fs_start,         \* the filesystem when the first call started
  csv,              \* the rows of the CSV file read so far
  first_call,       \* FALSE in a later call over the same file
  pc,               \* where the call is: loop, fetch, decide, mkdir,
                    \* download, sleep, done (returned), raised
  cur,              \* the locals of the iteration under way
  results,          \* the list process_csv_file builds and returns
  log,              \* per finished order, what the iteration did
  prev,             \* per order, the download outcome of the call before
  sleeps,           \* time.sleep(REQUEST_DELAY) calls of this call
  status_requests   \* status requests of this call

vars ==
  <<enable_download, fs, fs_start, csv, first_call, pc, cur, results, log,
    prev, sleeps, status_requests>>

\* no iteration under way
NoRow == [row |-> "none"]

\* a filesystem: the downloads folder of the given kind with nothing in or
\* below it, every other tracked path of the given kind and files
fs_of(downloads_kind, other_kind, other_files) ==
  LET downloads == resolve(Path(DOWNLOADS_DIR))
  IN [kind |-> [p \in TrackedPaths |->
                  IF p = downloads THEN downloads_kind
                  ELSE IF downloads \in Prefixes(p) THEN "absent"
                  ELSE other_kind],
      files |-> [p \in TrackedPaths |->
                   IF downloads \in Prefixes(p) THEN {} ELSE other_files]]

\* the filesystems a first call may find: the downloads folder not made yet
\* and no explicit output path; the downloads folder made and empty (as main
\* leaves it) and the explicit output path a regular file, or a directory
\* that holds a file
InitFs ==
  { fs_of("absent", "absent", {}),
    fs_of("dir", "file", {}),
    fs_of("dir", "dir", {OLD_FILE}) }

\* without the flag the filesystem is never looked at: one of them is enough
Init ==
  /\ enable_download \in BOOLEAN
  /\ fs \in InitFs
  /\ enable_download \/ fs = fs_of("absent", "absent", {})
  /\ fs_start = fs
  /\ csv = <<>>
  /\ first_call = TRUE
  /\ pc = "loop"
  /\ cur = NoRow
  /\ results = <<>>
  /\ log = <<>>
  /\ prev = <<>>
  /\ sleeps = 0
  /\ status_requests = 0

\* process_csv_file, lines 134-139: the fields of one row
parse_row(r) ==
  [row |-> "row",
   order |-> str_strip(r.order_number),
   shop |-> str_strip(r.shop_number),
   ident |-> str_strip(r.identifier),
   secure_id |-> str_upper(str_strip(r.secure_id)),
   cewe_order_id |-> str_strip(r.cewe_order_id),
   csv_output_path |-> str_strip(r.output_path),
   fs_before |-> fs]

\* process_csv_file, lines 144-148
should_download(enable, secure_id, status_code) ==
  enable /\ secure_id # <<>> /\ is_ready_for_pickup(status_code)

\* process_csv_file, lines 199-208 (and 173-182): the result record
result_record(c, download_status) ==
  [order_number |-> c.order,
   shop_number |-> c.shop,
   identifier |-> c.ident,
   secure_id |-> c.secure_id,
   cewe_order_id |-> c.cewe_order_id,
   output_path |-> c.csv_output_path,
   status |-> c.status,
   download_status |-> download_status]

\* no download request was made
NoDownload == [kind |-> "none", members |-> {}]

\* what the iteration did, kept beside its result record: the ids it sent,
\* what the output path was when the presence check looked at it (its kind,
\* and how many files and folders it held), whether a directory was made,
\* the download answer, and whether the filesystem was changed
log_record(c, should, present, made, order_id, dl, fs_after) ==
  LET p == resolve(resolve_output_path(c.csv_output_path, c.ident))
  IN [full_order_id |-> c.full_order_id,
      status_code |-> c.status_code,
      should_download |-> should,
      output_path |-> IF should THEN p ELSE <<>>,
      kind_before |-> IF should THEN fs_kind(c.fs_before, p) ELSE "unchecked",
      entries_before |->
        IF should /\ fs_kind(c.fs_before, p) = "dir"
        THEN Cardinality(c.fs_before.files[p])
             + Cardinality({q \in TrackedPaths :
                              parent(q) = p /\ c.fs_before.kind[q] # "absent"})
        ELSE 0,
      present |-> present,
      mkdir |-> made,
      download_order_id |-> order_id,
      download |-> dl,
      wrote |-> fs_after # c.fs_before]

\* variant: the continue of line 184 without the sleep of line 183
pc_after_record_no_pause_on_folder_failure(download_status) ==
  IF download_status = "Folder creation failed" THEN "loop" ELSE "sleep"

\* lines 183-184 and 210: after results.append the iteration pauses, on the
\* folder-creation path (before its continue) as on the common path
pc_after_record(download_status) == "sleep"

\* results.append(...), after which only the pause is left of the iteration
Finish(download_status, entry) ==
  /\ results' = Append(results, result_record(cur, download_status))
  /\ log' = Append(log, entry)
  /\ pc' = pc_after_record(download_status)

\* for row in reader: the next row of the file, in the first call over it
ReadRow ==
  /\ pc = "loop"
  /\ first_call
  /\ Len(csv) < MaxOrders
  /\ \E r \in Rows :
       /\ csv' = Append(csv, r)
       /\ cur' = parse_row(r)
  /\ pc' = "fetch"
  /\ UNCHANGED <<enable_download, fs, fs_start, first_call, results, log, prev,
                 sleeps, status_requests>>

\* for row in reader: the next row of the file, in a later call over it
ReplayRow ==
  /\ pc = "loop"
  /\ ~first_call
  /\ Len(results) < Len(csv)
  /\ cur' = parse_row(csv[Len(results) + 1])
  /\ pc' = "fetch"
  /\ UNCHANGED <<enable_download, fs, fs_start, csv, first_call, results, log,
                 prev, sleeps, status_requests>>

\* line 141: status_code, status = fetch_order_status(order, shop)
FetchStatus ==
  /\ pc = "fetch"
  /\ \E resp \in StatusResponses :
       LET st == fetch_order_status(cur.order, cur.shop, resp)
       IN cur' = [row |-> "row",
                  order |-> cur.order,
                  shop |-> cur.shop,
                  ident |-> cur.ident,
                  secure_id |-> cur.secure_id,
                  cewe_order_id |-> cur.cewe_order_id,
                  csv_output_path |-> cur.csv_output_path,
                  fs_before |-> cur.fs_before,
                  full_order_id |-> st.full_order_id,
                  status_code |-> st.status_code,
                  status |-> st.status]
  /\ status_requests' = status_requests + 1
  /\ pc' = "decide"
  /\ UNCHANGED <<enable_download, fs, fs_start, csv, first_call, results, log,
                 prev, sleeps>>

\* lines 144-165: should_download, the output path, the presence check
Decide ==
  /\ pc = "decide"
  /\ LET should == should_download(enable_download, cur.secure_id,
                                   cur.status_code)
         output_path == resolve_output_path(cur.csv_output_path, cur.ident)
         present == already_downloaded(fs, output_path)
     IN \/ /\ ~should
           /\ Finish("", log_record(cur, FALSE, "unchecked", "none", <<>>,
                                    NoDownload, fs))
        \/ /\ should
           /\ present = "yes"
           /\ Finish("Already downloaded",
                     log_record(cur, TRUE, "yes", "none", <<>>, NoDownload, fs))
        \/ /\ should
           /\ present = "no"
           /\ pc' = "mkdir"
           /\ UNCHANGED <<results, log>>
        \/ /\ should
           /\ present = "raise"
           /\ pc' = "raised"
           /\ UNCHANGED <<results, log>>
  /\ UNCHANGED <<enable_download, fs, fs_start, csv, first_call, cur, prev,
                 sleeps, status_requests>>

\* lines 168-184: output_path.mkdir(parents=True, exist_ok=True)
MakeDir ==
  /\ pc = "mkdir"
  /\ \E permitted \in BOOLEAN :
       LET output_path == resolve_output_path(cur.csv_output_path, cur.ident)
           m == mkdir(fs, output_path, permitted)
       IN \/ /\ ~m.ok
             /\ Finish("Folder creation failed",
                       log_record(cur, TRUE, "no", "failed", <<>>, NoDownload,
                                  fs))
             /\ fs' = fs
          \/ /\ m.ok
             /\ fs' = m.fs
             /\ pc' = "download"
             /\ UNCHANGED <<results, log>>
  /\ UNCHANGED <<enable_download, fs_start, csv, first_call, cur, prev, sleeps,
                 status_requests>>

\* lines 187-197: download_photos(download_order_id, secure_id, output_path)
Download ==
  /\ pc = "download"
  /\ \E resp \in DownloadResponses :
       LET order_id == resolve_download_order_id(cur.cewe_order_id, cur.order,
                                                 cur.shop)
           output_path == resolve_output_path(cur.csv_output_path, cur.ident)
           d == download_photos(fs, order_id, cur.secure_id, output_path, resp)
       IN /\ fs' = d.fs
          /\ \/ /\ d.result = "raise"
                /\ pc' = "raised"
                /\ UNCHANGED <<results, log>>
             \/ /\ d.result # "raise"
                /\ Finish(IF d.result = "true" THEN "Downloaded"
                          ELSE "Download failed",
                          log_record(cur, TRUE, "no", "ok", order_id,
                                     resp, d.fs))
  /\ UNCHANGED <<enable_download, fs_start, csv, first_call, cur, prev, sleeps,
                 status_requests>>

\* lines 183 and 210: time.sleep(REQUEST_DELAY), the end of the iteration
Sleep ==
  /\ pc = "sleep"
  /\ sleeps' = sleeps + 1
  /\ cur' = NoRow
  /\ pc' = "loop"
  /\ UNCHANGED <<enable_download, fs, fs_start, csv, first_call, results, log,
                 prev, status_requests>>

\* line 211: the reader is exhausted, return results
Return ==
  /\ pc = "loop"
  /\ first_call \/ Len(results) = Len(csv)
  /\ pc' = "done"
  /\ UNCHANGED <<enable_download, fs, fs_start, csv, first_call, cur, results,
                 log, prev, sleeps, status_requests>>

\* main run again: process_csv_file is called once more over the same file,
\* with the filesystem as the call before left it; prev keeps, per order,
\* the download status and the download answer of that call
Rerun ==
  /\ pc = "done"
  /\ Len(csv) >= 1
  /\ prev' = [i \in 1..Len(results) |->
                [download_status |-> results[i].download_status,
                 download |-> log[i].download]]
  /\ results' = <<>>
  /\ log' = <<>>
  /\ sleeps' = 0
  /\ status_requests' = 0
  /\ first_call' = FALSE
  /\ pc' = "loop"
  /\ UNCHANGED <<enable_download, fs, fs_start, csv, cur>>

\* one call of process_csv_file over a file of up to MaxOrders rows
Next ==
  \/ ReadRow
  \/ FetchStatus
  \/ Decide
  \/ MakeDir
  \/ Download
  \/ Sleep
  \/ Return

Spec == Init /\ [][Next]_vars

\* a file of up to MaxRerunOrders rows, processed again and again
ReadShortRow == Len(csv) < MaxRerunOrders /\ ReadRow

NextRerun ==
  \/ ReadShortRow
  \/ ReplayRow
  \/ FetchStatus
  \/ Decide
  \/ MakeDir
  \/ Download
  \/ Sleep
  \/ Return
  \/ Rerun

SpecRerun == Init /\ [][NextRerun]_vars

\* fetch_order_status called on its own, for any order and shop number
IdOrders ==
  { ORD_PLAIN,
    ORD_HYPH11,
    SHOP \o <<"-">> \o ORD_PLAIN,
    SHOP \o ORD_PLAIN,
    <<"5","-">> \o Tail(SHOP) \o ORD_PLAIN,
    <<"5","4","-","1","0","-","3","2">> \o ORD_PLAIN,
    SHOP \o <<"7","-">> \o ORD_PLAIN,
    <<"A","B","C","D","E","F","-","G","H","I","J","K","L">>,
    SHOP \o <<"-","0","5","0","8","4","X">>,
    <<"-">>,
    <<>>,
    <<"0","5","-","0","8","4","2">> }

IdShops == { SHOP, <<"9","9">> }

InitIds ==
  /\ enable_download = FALSE
  /\ fs = fs_of("absent", "absent", {})
  /\ fs_start = fs
  /\ csv = <<>>
  /\ first_call = TRUE
  /\ pc = "call"
  /\ cur \in [row : {"args"}, order : IdOrders, shop : IdShops]
  /\ results = <<>>
  /\ log = <<>>
  /\ prev = <<>>
  /\ sleeps = 0
  /\ status_requests = 0

\* fetch_order_status(order_number, shop_number), lines 92-116
CallFetchOrderStatus ==
  /\ pc = "call"
  /\ \E resp \in StatusResponses :
       LET st == fetch_order_status(cur.order, cur.shop, resp)
       IN cur' = [row |-> "returned",
                  order |-> cur.order,
                  shop |-> cur.shop,
                  full_order_id |-> st.full_order_id,
                  status_code |-> st.status_code,
                  status |-> st.status]
  /\ status_requests' = status_requests + 1
  /\ pc' = "returned"
  /\ UNCHANGED <<enable_download, fs, fs_start, csv, first_call, results, log,
                 prev, sleeps>>

NextIds == CallFetchOrderStatus

SpecIds == InitIds /\ [][NextIds]_vars

\* ================================================================== claims
\* a and b are equal when case is ignored
EqualsIgnoreCase(a, b) ==
  /\ Len(a) = Len(b)
  /\ \A k \in 1..Len(a) : char_lower(a[k]) = char_lower(b[k])

\* shouldDownload of finished order i: the flag, a secure id, and a status
\* code that is "DELIVERED" whatever its case
Due(i) ==
  /\ enable_download
  /\ results[i].secure_id # <<>>
  /\ EqualsIgnoreCase(log[i].status_code, DELIVERED)

\* the directory row r's photos go to
OutputDirOfRow(r) ==
  resolve(resolve_output_path(str_strip(r.output_path),
                              str_strip(r.identifier)))

\* no other row of the file resolves to order i's directory or below it
DirectoryOfItsOwn(i) ==
  \A j \in (1..Len(csv)) \ {i} :
    OutputDirOfRow(csv[i]) \notin Prefixes(OutputDirOfRow(csv[j]))

\* the characters of s that are no hyphen
NonHyphenCount(s) == Cardinality({k \in 1..Len(s) : s[k] # "-"})

Digits == {"0","1","2","3","4","5","6","7","8","9"}

\* C1: for every order process_csv_file has finished, the download was not
\* attempted (empty download_status, no download request, no mkdir, nothing
\* written) if and only if shouldDownload is false, shouldDownload being
\* enable_download, a non-empty secure_id and a status code equal to
\* "DELIVERED" ignoring case.
C1_NotAttemptedIffNotDue ==
  \A i \in 1..Len(results) :
    ( /\ results[i].download_status = ""
      /\ log[i].download.kind = "none"
      /\ log[i].mkdir = "none"
      /\ ~log[i].wrote )
    <=> ~Due(i)

\* C1 witness: with downloads enabled and a secure id, the code
\* DELIVERED_PARTIAL left the download unattempted, and another order with a
\* mixed-case "Delivered" was downloaded.
C1_Witness ==
  /\ enable_download
  /\ \E i \in 1..Len(results) :
       /\ results[i].secure_id # <<>>
       /\ log[i].status_code = DELIVERED \o <<"_","P","A","R","T","I","A","L">>
       /\ results[i].download_status = ""
  /\ \E i \in 1..Len(results) :
       /\ log[i].status_code = <<"D","e","l","i","v","e","r","e","d">>
       /\ results[i].download_status = "Downloaded"

\* C2: process_csv_file never raises because of a per-order failure, and
\* when it returns it has one result record per row of the file, in the
\* file's order.
C2_NeverRaisesOneRecordPerOrder ==
  /\ pc # "raised"
  /\ pc = "done" =>
       /\ Len(results) = Len(csv)
       /\ \A i \in 1..Len(results) :
            /\ results[i].order_number = str_strip(csv[i].order_number)
            /\ results[i].shop_number = str_strip(csv[i].shop_number)
            /\ results[i].identifier = str_strip(csv[i].identifier)

\* C3: whenever a download is due and the output directory exists and holds
\* at least one entry, the outcome is "Already downloaded", no download
\* request is made and nothing is written for that order.
C3_PresentMeansNoDownload ==
  \A i \in 1..Len(results) :
    (Due(i) /\ log[i].kind_before = "dir" /\ log[i].entries_before >= 1)
    => /\ results[i].download_status = "Already downloaded"
       /\ log[i].download.kind = "none"
       /\ ~log[i].wrote

\* C3 witness: a due order found only a sub-folder in its directory (no
\* regular file) and was reported as already downloaded.
C3_Witness ==
  \E i \in 1..Len(results) :
    /\ Due(i)
    /\ log[i].entries_before >= 1
    /\ fs.files[log[i].output_path] = {}
    /\ results[i].download_status = "Already downloaded"

\* C4: the pause is taken exactly once after every order, whatever its
\* outcome, and before the next order's status request: between orders and
\* at the return the pauses equal the records, a status request is only
\* ever one ahead of the pauses, and a returned call over N rows made N
\* pauses.
C4_OnePausePerOrder ==
  /\ pc \in {"loop", "fetch", "done"} =>
       /\ sleeps = Len(results)
       /\ status_requests = sleeps
  /\ pc \in {"decide", "mkdir", "download"} =>
       /\ sleeps = Len(results)
       /\ status_requests = sleeps + 1
  /\ pc = "sleep" =>
       /\ sleeps + 1 = Len(results)
       /\ status_requests = sleeps + 1
  /\ pc = "done" => sleeps = Len(csv)

\* C4 witness: a call returned after two orders and two pauses, one order
\* having failed to create its folder and the other having failed its status
\* fetch.
C4_Witness ==
  /\ pc = "done"
  /\ sleeps = 2
  /\ Len(results) = 2
  /\ results[1].download_status = "Folder creation failed"
  /\ log[2].status_code = <<>>

\* C5 (as claimed): an order number that is a 12-digit hyphenated id is sent
\* unchanged; every other order number is sent as "{shop}-{order}".
C5_TwelveDigitsDecide ==
  pc = "returned" =>
    cur.full_order_id =
      IF /\ has_hyphen(cur.order)
         /\ NonHyphenCount(cur.order) = FULL_ID_LEN
         /\ \A k \in 1..Len(cur.order) : cur.order[k] \in Digits \cup {"-"}
      THEN cur.order
      ELSE cur.shop \o <<"-">> \o cur.order

\* C5 (amended): an order number that holds a hyphen and exactly 12 other
\* characters, digits or not, is sent unchanged; every other order number is
\* sent as "{shop}-{order}".
C5_TwelveCharactersDecide ==
  pc = "returned" =>
    cur.full_order_id =
      IF has_hyphen(cur.order) /\ NonHyphenCount(cur.order) = FULL_ID_LEN
      THEN cur.order
      ELSE cur.shop \o <<"-">> \o cur.order

\* C5 witness: a hyphenated order number of 12 letters was sent unchanged.
C5_Witness ==
  /\ pc = "returned"
  /\ cur.order = <<"A","B","C","D","E","F","-","G","H","I","J","K","L">>
  /\ cur.full_order_id = cur.order

C7_RerunSkipsEveryCompleted ==
  ~first_call =>
    \A i \in 1..Len(results) :
      (prev[i].download_status = "Downloaded" /\ Due(i))
      => /\ results[i].download_status = "Already downloaded"
         /\ log[i].download.kind = "none"

\* C7 (amended): the same, unless the downloaded payload was a valid archive
\* without members: that one leaves the directory empty, and the order (with
\* a directory of its own) is downloaded again.
C7_RerunSkipsCompletedWithContent ==
  ~first_call =>
    \A i \in 1..Len(results) :
      (prev[i].download_status = "Downloaded" /\ Due(i))
      => IF prev[i].download # [kind |-> "zip", members |-> {}]
         THEN /\ results[i].download_status = "Already downloaded"
              /\ log[i].download.kind = "none"
              /\ ~log[i].wrote
         ELSE DirectoryOfItsOwn(i)
                => results[i].download_status # "Already downloaded"

\* C7 witness: a later call reported an order as already downloaded that the
\* call before had downloaded and unpacked.
C7_Witness ==
  /\ ~first_call
  /\ \E i \in 1..Len(results) :
       /\ prev[i].download = [kind |-> "zip", members |-> {ARCHIVE_MEMBER}]
       /\ prev[i].download_status = "Downloaded"
       /\ results[i].download_status = "Already downloaded"

\* C8: the download status recorded for an order is one it could get if it
\* were processed alone against the filesystem the call started with, the
\* status answer being the same and the download answer too where one was
\* given.
C8_OutcomeAsIfAlone ==
  first_call =>
    \A i \in 1..Len(results) :
      LET path == resolve_output_path(results[i].output_path,
                                      results[i].identifier)
          answers == IF log[i].download.kind = "none"
                     THEN DownloadResponses ELSE {log[i].download}
          alone ==
            IF ~Due(i) THEN {""}
            ELSE IF already_downloaded(fs_start, path) = "yes"
                 THEN {"Already downloaded"}
            ELSE IF already_downloaded(fs_start, path) = "raise" THEN {}
            ELSE {"Folder creation failed"}
                 \cup {IF download_file(fs_start, path, <<>>, a).result = "true"
                       THEN "Downloaded" ELSE "Download failed" :
                         a \in {x \in answers : x.kind # "bad_content_length"}}
      IN results[i].download_status \in alone

\* C9 (as claimed): an order whose download was "Download failed" in the
\* call before, and which is due again, is attempted again and not reported
\* as already downloaded.
C9_RerunRetriesEveryFailed ==
  ~first_call =>
    \A i \in 1..Len(results) :
      (prev[i].download_status = "Download failed" /\ Due(i))
      => /\ results[i].download_status # "Already downloaded"
         /\ log[i].present = "no"

\* C9 (amended): after a failure of the request, or of opening the archive
\* file, nothing was written, and the order (with a directory of its own) is
\* attempted again; after a failure while the body was streamed to the file
\* the partial file stays, and the order is reported as already downloaded.
C9_RerunRetriesUnlessPartialFile ==
  ~first_call =>
    \A i \in 1..Len(results) :
      (prev[i].download_status = "Download failed" /\ Due(i))
      => IF prev[i].download.kind = "stream_error"
         THEN /\ results[i].download_status = "Already downloaded"
              /\ log[i].download.kind = "none"
         ELSE DirectoryOfItsOwn(i)
                => /\ results[i].download_status # "Already downloaded"
                   /\ log[i].present = "no"

\* C9 witness: a later call reported an order as already downloaded whose
\* download had failed part-way in the call before, and another call
\* attempted again an order whose request had failed.
C9_Witness ==
  /\ ~first_call
  /\ \E i \in 1..Len(results) :
       /\ prev[i].download_status = "Download failed"
       /\ prev[i].download.kind = "stream_error"
       /\ results[i].download_status = "Already downloaded"

\* C10: for an order without a cewe_order_id, the order id handed to
\* download_photos is the full order id its status request sent.
C10_DownloadIdIsStatusId ==
  \A i \in 1..Len(results) :
    (results[i].cewe_order_id = <<>> /\ log[i].download.kind # "none")
    => log[i].download_order_id = log[i].full_order_id

====
